---- MODULE Spec2Model ----
(***************************************************************************)
(* Model of src/app.py: the PDF analysis pipeline.                         *)
(*   upload -> extract_text_from_pdf -> sufficiency gate ->                *)
(*   analyze_text_with_gemini (3 attempts, exponential backoff) ->         *)
(*   result presenter.                                                     *)
(*                                                                         *)
(* Document text is held run-length encoded (a sequence of runs of one     *)
(* character class each), so that texts around the 15000 character limit   *)
(* can be enumerated.  JSON values and the strings inside the API response *)
(* are held character by character.                                        *)
(***************************************************************************)
EXTENDS Integers, Sequences, FiniteSets, TLC

VARIABLES
    pc,             \* position of the script
    uploaded_file,  \* the uploaded PDF (what the parsing library will do with it)
    handle,         \* pdf_document: "none", "open" or "closed"
    page_num,       \* loop index of extract_text_from_pdf
    text,           \* local text of extract_text_from_pdf
    document_text,  \* result of extract_text_from_pdf
    truncated_text, \* local truncated_text of analyze_text_with_gemini
    i,              \* attempt index of the retry loop
    calls,          \* document text embedded in each requests.post issued
    outcomes,       \* what the transport answered to each call
    sleeps,         \* durations passed to time.sleep, in order
    analysis_result,\* result of analyze_text_with_gemini
    display,        \* streamlit elements shown, in order
    escaped         \* exception that left the script unhandled, or "none"

vars == <<pc, uploaded_file, handle, page_num, text, document_text,
          truncated_text, i, calls, outcomes, sleeps, analysis_result,
          display, escaped>>

\* ------------------------------------------------------------------ bounds
MaxPages == 2

\* ------------------------------------------------------- program constants
TruncateLimit == 15000
MinTextLen == 50
MaxAttempts == 3

\* --------------------------------------------- document text (run-length)
\* A text is a sequence of runs [c |-> class, n |-> length >= 1]; class "w"
\* is whitespace, the others are printable characters.
Run(c, n) == IF n > 0 THEN <<[c |-> c, n |-> n]>> ELSE <<>>

RECURSIVE StrLen(_)
StrLen(t) == IF t = <<>> THEN 0 ELSE Head(t).n + StrLen(Tail(t))

\* t[:n]
RECURSIVE SliceShortMutant(_, _)
SliceShortMutant(t, n) ==
    IF t = <<>> \/ n <= 1 THEN <<>>
    ELSE IF Head(t).n < n THEN <<Head(t)>> \o SliceShortMutant(Tail(t), n - Head(t).n)
    ELSE Run(Head(t).c, n - 1)

RECURSIVE Slice(_, _)
Slice(t, n) ==
    IF t = <<>> \/ n <= 0 THEN <<>>
    ELSE IF Head(t).n <= n THEN <<Head(t)>> \o Slice(Tail(t), n - Head(t).n)
    ELSE Run(Head(t).c, n)

RECURSIVE LStrip(_)
LStrip(t) == IF t # <<>> /\ Head(t).c = "w" THEN LStrip(Tail(t)) ELSE t

RECURSIVE RStrip(_)
RStrip(t) ==
    IF t # <<>> /\ t[Len(t)].c = "w" THEN RStrip(SubSeq(t, 1, Len(t) - 1)) ELSE t

\* t.strip()
Strip(t) == RStrip(LStrip(t))

\* the character class at 0-based position p of t (p < StrLen(t))
RECURSIVE CharAt(_, _)
CharAt(t, p) == IF p < Head(t).n THEN Head(t).c ELSE CharAt(Tail(t), p - Head(t).n)

\* ------------------------------------------------------------ the uploads
W(n) == Run("w", n)
A(n) == Run("a", n)
B(n) == Run("b", n)

\* what page.get_text() returns for the pages of the sample documents
PageTexts ==
    { <<>>,                                      \* image-only page
      W(3),
      A(MinTextLen),
      W(1) \o A(MinTextLen + 1) \o W(2),
      W(TruncateLimit),
      A(TruncateLimit - 1) \o B(2) }

\* a page either yields its text or makes load_page / get_text raise
PageOutcomes ==
    [raises : {FALSE}, text : PageTexts] \cup {[raises |-> TRUE, text |-> <<>>]}

RECURSIVE SeqsUpTo(_, _)
SeqsUpTo(S, n) ==
    IF n = 0 THEN {<<>>}
    ELSE LET shorter == SeqsUpTo(S, n - 1)
         IN  shorter \cup {Append(s, x) : s \in {q \in shorter : Len(q) = n - 1}, x \in S}

\* opens = FALSE: fitz.open (or pdf_file.read) raises
PdfFiles ==
    [opens : {TRUE}, pages : SeqsUpTo(PageOutcomes, MaxPages)]
        \cup {[opens |-> FALSE, pages |-> <<>>]}

\* Python's None for document_text
NoText == [isNone |-> TRUE, runs |-> <<>>]
SomeText(t) == [isNone |-> FALSE, runs |-> t]

\* ------------------------------------------------- JSON / Python values
\* A value is a record tagged by k.  Strings are sequences of one-character
\* strings; an object is the sequence of its members in insertion order.
\* JNull is also Python's None.
JNull == [k |-> "null"]
JBool(b) == [k |-> "bool", b |-> b]
JNum(n) == [k |-> "num", n |-> n]
JStr(s) == [k |-> "str", s |-> s]
JList(items) == [k |-> "list", items |-> items]
JObj(members) == [k |-> "obj", members |-> members]
Mem(key, val) == [key |-> key, val |-> val]

\* the outcome of evaluating an expression: a value, or the exception raised
Val(v) == [exc |-> "none", val |-> v]
Raise(e) == [exc |-> e, val |-> JNull]

\* bool(v)
PyTruthy(v) ==
    CASE v.k = "null" -> FALSE
      [] v.k = "bool" -> v.b
      [] v.k = "num"  -> v.n # 0
      [] v.k = "str"  -> v.s # <<>>
      [] v.k = "list" -> v.items # <<>>
      [] v.k = "obj"  -> v.members # <<>>

HasKey(members, key) == \E j \in 1..Len(members) : members[j].key = key
Lookup(members, key) ==
    members[CHOOSE j \in 1..Len(members) : members[j].key = key].val

IsSubstring(needle, s) ==
    \E j \in 0..(Len(s) - Len(needle)) : SubSeq(s, j + 1, j + Len(needle)) = needle

\* key in v
PyIn(key, v) ==
    CASE v.k = "obj"  -> Val(JBool(HasKey(v.members, key)))
      [] v.k = "list" -> Val(JBool(\E j \in 1..Len(v.items) : v.items[j] = JStr(key)))
      [] v.k = "str"  -> Val(JBool(IsSubstring(key, v.s)))
      [] OTHER        -> Raise("TypeError")

\* v[key] for a string key
GetKey(v, key) ==
    CASE v.k = "obj" -> IF HasKey(v.members, key) THEN Val(Lookup(v.members, key))
                        ELSE Raise("KeyError")
      [] OTHER       -> Raise("TypeError")

\* v[0]
GetFirst(v) ==
    CASE v.k = "list" -> IF v.items # <<>> THEN Val(v.items[1]) ELSE Raise("IndexError")
      [] v.k = "str"  -> IF v.s # <<>> THEN Val(JStr(<<v.s[1]>>)) ELSE Raise("IndexError")
      [] v.k = "obj"  -> Raise("KeyError")
      [] OTHER        -> Raise("TypeError")

\* v.get(key, default); only a dict has the method
PyGet(v, key, default) ==
    IF v.k # "obj" THEN Raise("AttributeError")
    ELSE IF HasKey(v.members, key) THEN Val(Lookup(v.members, key))
    ELSE Val(default)

\* len(v)
PyLen(v) ==
    CASE v.k = "str"  -> Len(v.s)
      [] v.k = "list" -> Len(v.items)
      [] v.k = "obj"  -> Len(v.members)
      [] OTHER        -> -1

\* list(v): what enumerate(v) walks through
PyIter(v) ==
    CASE v.k = "str"  -> [j \in 1..Len(v.s) |-> JStr(<<v.s[j]>>)]
      [] v.k = "list" -> v.items
      [] v.k = "obj"  -> [j \in 1..Len(v.members) |-> JStr(v.members[j].key)]
      [] OTHER        -> <<>>

UpperLetters ==
    <<"A","B","C","D","E","F","G","H","I","J","K","L","M",
      "N","O","P","Q","R","S","T","U","V","W","X","Y","Z">>
LowerLetters ==
    <<"a","b","c","d","e","f","g","h","i","j","k","l","m",
      "n","o","p","q","r","s","t","u","v","w","x","y","z">>
LowerChar(c) ==
    IF \E j \in 1..26 : UpperLetters[j] = c
    THEN LowerLetters[CHOOSE j \in 1..26 : UpperLetters[j] = c]
    ELSE c
\* s.lower()
Lower(s) == [j \in 1..Len(s) |-> LowerChar(s[j])]

\* ------------------------------------------------------------ json.loads
\* The grammar decoded: objects, arrays, strings without escapes,
\* non-negative integers, null, true, false, blanks between tokens.
\* A parse step yields [ok, val, pos]: pos is the next unread position.
Digits == <<"0","1","2","3","4","5","6","7","8","9">>
IsDigit(c) == \E d \in 1..10 : Digits[d] = c
DigitVal(c) == (CHOOSE d \in 1..10 : Digits[d] = c) - 1
POk(v, p) == [ok |-> TRUE, val |-> v, pos |-> p]
PFail == [ok |-> FALSE, val |-> JNull, pos |-> 0]

RECURSIVE SkipWs(_, _)
SkipWs(s, p) == IF p <= Len(s) /\ s[p] = " " THEN SkipWs(s, p + 1) ELSE p

\* s[p] is the opening quote
ParseString(s, p) ==
    LET closing == {q \in (p + 1)..Len(s) : s[q] = "\""}
    IN  IF closing = {} THEN PFail
        ELSE LET q == CHOOSE c \in closing : \A d \in closing : c <= d
             IN  POk(JStr(SubSeq(s, p + 1, q - 1)), q + 1)

RECURSIVE ParseDigits(_, _, _)
ParseDigits(s, p, acc) ==
    IF p <= Len(s) /\ IsDigit(s[p]) THEN ParseDigits(s, p + 1, acc * 10 + DigitVal(s[p]))
    ELSE POk(JNum(acc), p)

ParseNumber(s, p) == IF s[p] = "0" THEN POk(JNum(0), p + 1) ELSE ParseDigits(s, p, 0)

ParseLiteral(s, p, word, v) ==
    IF SubSeq(s, p, p + Len(word) - 1) = word /\ p + Len(word) - 1 <= Len(s)
    THEN POk(v, p + Len(word)) ELSE PFail

\* a repeated key keeps its place and takes the later value
PutMember(members, key, val) ==
    IF HasKey(members, key)
    THEN [j \in 1..Len(members) |->
            IF members[j].key = key THEN Mem(key, val) ELSE members[j]]
    ELSE Append(members, Mem(key, val))

RECURSIVE ParseValue(_, _)
RECURSIVE ParseItems(_, _, _)
RECURSIVE ParseMembers(_, _, _)

ParseValue(s, p) ==
    IF p > Len(s) THEN PFail
    ELSE CASE s[p] = "{" ->
                LET q == SkipWs(s, p + 1)
                IN  IF q <= Len(s) /\ s[q] = "}" THEN POk(JObj(<<>>), q + 1)
                    ELSE ParseMembers(s, q, <<>>)
           [] s[p] = "[" ->
                LET q == SkipWs(s, p + 1)
                IN  IF q <= Len(s) /\ s[q] = "]" THEN POk(JList(<<>>), q + 1)
                    ELSE ParseItems(s, q, <<>>)
           [] s[p] = "\"" -> ParseString(s, p)
           [] IsDigit(s[p]) -> ParseNumber(s, p)
           [] s[p] = "n" -> ParseLiteral(s, p, <<"n","u","l","l">>, JNull)
           [] s[p] = "t" -> ParseLiteral(s, p, <<"t","r","u","e">>, JBool(TRUE))
           [] s[p] = "f" -> ParseLiteral(s, p, <<"f","a","l","s","e">>, JBool(FALSE))
           [] OTHER -> PFail

\* p is at the start of the next item
ParseItems(s, p, acc) ==
    LET item == ParseValue(s, p)
        q == SkipWs(s, item.pos)
    IN  IF ~item.ok \/ q > Len(s) THEN PFail
        ELSE IF s[q] = "]" THEN POk(JList(Append(acc, item.val)), q + 1)
        ELSE IF s[q] = "," THEN ParseItems(s, SkipWs(s, q + 1), Append(acc, item.val))
        ELSE PFail

\* p is at the start of the next member's key
ParseMembers(s, p, acc) ==
    IF p > Len(s) \/ s[p] # "\"" THEN PFail
    ELSE LET key == ParseString(s, p)
             colon == SkipWs(s, key.pos)
         IN  IF ~key.ok \/ colon > Len(s) \/ s[colon] # ":" THEN PFail
             ELSE LET member == ParseValue(s, SkipWs(s, colon + 1))
                      q == SkipWs(s, member.pos)
                      put == PutMember(acc, key.val.s, member.val)
                  IN  IF ~member.ok \/ q > Len(s) THEN PFail
                      ELSE IF s[q] = "}" THEN POk(JObj(put), q + 1)
                      ELSE IF s[q] = "," THEN ParseMembers(s, SkipWs(s, q + 1), put)
                      ELSE PFail

\* json.loads(v)
JsonLoads(v) ==
    IF v.k # "str" THEN Raise("TypeError")
    ELSE LET r == ParseValue(v.s, SkipWs(v.s, 1))
         IN  IF r.ok /\ SkipWs(v.s, r.pos) > Len(v.s) THEN Val(r.val)
             ELSE Raise("JSONDecodeError")

\* --------------------------------------------------- the remote responses
kCandidates == <<"c","a","n","d","i","d","a","t","e","s">>
kContent == <<"c","o","n","t","e","n","t">>
kParts == <<"p","a","r","t","s">>
kText == <<"t","e","x","t">>
kSummary == <<"s","u","m","m","a","r","y">>
kKeywords == <<"k","e","y","w","o","r","d","s">>
kSentiment == <<"s","e","n","t","i","m","e","n","t">>
kLanguage == <<"l","a","n","g","u","a","g","e">>
sPositive == <<"p","o","s","i","t","i","v","e">>
sNegative == <<"n","e","g","a","t","i","v","e">>

\* the text of a JSON string literal, and of one member
Q(s) == <<"\"">> \o s \o <<"\"">>
Pair(key, valueText) == Q(key) \o <<":">> \o valueText

\* inner texts the model may put in candidates[0].content.parts[0].text
TxtFull ==
    <<"{">> \o Pair(kSummary, Q(<<"s">>)) \o <<",", " ">>
            \o Pair(kKeywords, <<"[">> \o Q(<<"k">>) \o <<",">> \o Q(<<"t">>) \o <<"]">>)
            \o <<",">> \o Pair(kSentiment, Q(<<"P","o","s","i","t","i","v","e">>))
            \o <<",">> \o Pair(kLanguage, Q(<<"e","n">>)) \o <<"}">>
TxtNoKeywords ==
    <<"{">> \o Pair(kSummary, Q(<<"s">>))
            \o <<",">> \o Pair(kSentiment, Q(<<"N","E","G","A","T","I","V","E">>))
            \o <<",">> \o Pair(kLanguage, Q(<<"e","n">>)) \o <<"}">>
TxtEmptyKeywords ==
    <<"{">> \o Pair(kSummary, Q(<<"s">>)) \o <<",">> \o Pair(kKeywords, <<"[", " ", "]">>)
            \o <<",">> \o Pair(kSentiment, Q(<<"m","i","x","e","d">>)) \o <<"}">>
TxtOnlyKeywords == <<"{">> \o Pair(kKeywords, <<"[">> \o Q(<<"k">>) \o <<"]">>) \o <<"}">>
TxtOnlyLanguage == <<"{">> \o Pair(kLanguage, Q(<<"e","n">>)) \o <<"}">>
TxtEmptyObject == <<"{", "}">>
TxtNull == <<"n","u","l","l">>
TxtZero == <<"0">>
TxtList == <<"[">> \o Q(<<"k">>) \o <<"]">>
TxtSentimentNumber ==
    <<"{">> \o Pair(kSummary, Q(<<"s">>)) \o <<",">> \o Pair(kSentiment, <<"5">>) \o <<"}">>
TxtKeywordsNumber == <<"{">> \o Pair(kKeywords, <<"1","2">>) \o <<"}">>
TxtTruncated == <<"{">> \o Pair(kSummary, Q(<<"s">>))
TxtTrailing == <<"{", "}", "x">>
TxtProse == <<"S","o","r","r","y">>

InnerTexts ==
    { TxtFull, TxtNoKeywords, TxtEmptyKeywords, TxtOnlyKeywords, TxtOnlyLanguage,
      TxtEmptyObject, TxtNull, TxtZero, TxtList, TxtSentimentNumber,
      TxtKeywordsNumber, TxtTruncated, TxtTrailing, TxtProse, <<>> }

\* {"candidates": [{"content": {"parts": parts}}]}
WithCandidates(c) == JObj(<<Mem(kCandidates, c)>>)
WithParts(parts) ==
    WithCandidates(JList(<<JObj(<<Mem(kContent, JObj(<<Mem(kParts, parts)>>))>>)>>))
WithText(t) == WithParts(JList(<<JObj(<<Mem(kText, t)>>)>>))

\* what response.json() decodes the body to
Bodies ==
    {WithText(JStr(t)) : t \in InnerTexts}
    \cup { JObj(<<>>),                               \* no candidates
           JList(<<>>),                              \* the body is a list
           JNull,                                    \* the body is null
           WithCandidates(JList(<<>>)),              \* empty candidate list
           WithCandidates(JNull),                    \* candidates is null
           WithCandidates(JList(<<JObj(<<>>)>>)),    \* candidate without content
           WithParts(JList(<<>>)),                   \* empty parts
           WithParts(JList(<<JStr(<<"x">>)>>)),      \* a part that is a string
           WithParts(JList(<<JObj(<<>>)>>)),         \* part without text
           WithText(JNum(5)) }                       \* text that is a number

\* status: "ok" is a 2xx answer.  invalid: the 2xx body is not JSON, and
\* response.json() raises requests' JSONDecodeError ("requests", a
\* RequestException) or, in older releases of the library, the decoder's
\* own error ("legacy").
TransportFailures == {"connection_error", "timeout", "http_error"}
Responses ==
    [status : TransportFailures, invalid : {"none"}, body : {JNull}]
    \cup [status : {"ok"}, invalid : {"none"}, body : Bodies]
    \cup [status : {"ok"}, invalid : {"requests", "legacy"}, body : {JNull}]

\* ------------------------------------------------------ streamlit elements
\* lit: the literal text of the call; arg: the run-time value shown with it;
\* col: the column of the keyword row (0 outside it)
El(w, lit) == [w |-> w, lit |-> lit, arg |-> JNull, col |-> 0]
ElArg(w, lit, arg) == [w |-> w, lit |-> lit, arg |-> arg, col |-> 0]
ElCol(w, lit, arg, col) == [w |-> w, lit |-> lit, arg |-> arg, col |-> col]

MsgPdfError == El("error", "Error reading PDF file")
MsgUnexpected == El("error", "The AI model returned an unexpected response.")
MsgConnect == El("error", "Failed to connect to the AI model after several retries")
MsgParse == El("error", "Failed to parse the AI model's response.")
MsgNotEnough == El("warning", "Could not extract enough text from the PDF.")
MsgSuccess == El("success", "Analysis Complete!")
MsgNoKeywords == El("write", "No keywords were extracted.")

\* ------------------------------------------------ analyze_text_with_gemini
\* v[key] and v[0] of an outcome x that may already have raised
ThenKey(x, key) == IF x.exc # "none" THEN x ELSE GetKey(x.val, key)
ThenFirst(x) == IF x.exc # "none" THEN x ELSE GetFirst(x.val)

\* result["candidates"][0]["content"]["parts"][0]["text"]
InnerText(result) ==
    LET candidate == ThenFirst(GetKey(result, kCandidates))
        parts == ThenKey(ThenKey(candidate, kContent), kParts)
    IN  ThenKey(ThenFirst(parts), kText)

\* lines 71-80: the try block.  unexpected: the else branch was taken.
Tried(x, unexpected) == [exc |-> x.exc, val |-> x.val, unexpected |-> unexpected]

TryBlock(r) ==
    IF r.status # "ok" \/ r.invalid = "requests" THEN Tried(Raise("RequestException"), FALSE)
    ELSE IF r.invalid = "legacy" THEN Tried(Raise("JSONDecodeError"), FALSE)
    ELSE LET has == PyIn(kCandidates, r.body)
             inner == InnerText(r.body)
         IN  IF has.exc # "none" THEN Tried(has, FALSE)
             ELSE IF ~has.val.b THEN Tried(Val(JNull), TRUE)
             ELSE IF inner.exc # "none" THEN Tried(inner, FALSE)
             ELSE IF ~PyTruthy(inner.val) THEN Tried(Val(JNull), TRUE)
             ELSE Tried(JsonLoads(inner.val), FALSE)

\* the except clause that takes exception e, or "none"
HandlerRetryAllMutant(e) ==
    CASE e \in {"RequestException", "JSONDecodeError"} -> "retry"
      [] e \in {"KeyError", "IndexError"} -> "parse"
      [] OTHER -> "none"

Handler(e) ==
    CASE e = "RequestException" -> "retry"
      [] e \in {"KeyError", "IndexError", "JSONDecodeError"} -> "parse"
      [] OTHER -> "none"

\* line 83: i < 2
CanRetryOnceMutant(n) == n < 1
CanRetry(n) == n < 2

\* line 84: 2 ** i
BackoffDoubleMutant(n) == 2 * n
Backoff(n) == 2 ^ n

\* ---------------------------------------------------------- the presenter
dNoSummary ==
    <<"N","o"," ","s","u","m","m","a","r","y"," ","a","v","a","i","l","a","b","l","e",".">>
dNA == <<"N","/","A">>

Shown(els, e) == [shown |-> els, exc |-> e]

KeywordRow(keywords) ==
    LET n == PyLen(keywords)
        items == PyIter(keywords)
    IN  <<ElArg("columns", "", JNum(IF n > 0 THEN n ELSE 1))>>
            \o [j \in 1..n |-> ElCol("info", "", items[j], j)]

SentimentColor(sentiment) ==
    IF Lower(sentiment.s) = sPositive THEN "green"
    ELSE IF Lower(sentiment.s) = sNegative THEN "red"
    ELSE "orange"

\* lines 118-155: the elements shown, and the exception that ended it
Render(res) ==
    IF ~PyTruthy(res) THEN Shown(<<>>, "none")
    ELSE
    LET top == <<MsgSuccess, El("divider", ""), El("subheader", "Summary")>>
        summary == PyGet(res, kSummary, JStr(dNoSummary))
    IN  IF summary.exc # "none" THEN Shown(top, summary.exc)
        ELSE
        LET keywords == PyGet(res, kKeywords, JList(<<>>)).val
            upto == top \o <<ElArg("write", "", summary.val),
                             El("subheader", "Key Topics")>>
        IN  IF PyTruthy(keywords) /\ PyLen(keywords) < 0 THEN Shown(upto, "TypeError")
            ELSE
            LET sentiment == PyGet(res, kSentiment, JStr(dNA)).val
                rest == upto
                    \o (IF PyTruthy(keywords) THEN KeywordRow(keywords)
                        ELSE <<MsgNoKeywords>>)
                    \o <<El("divider", ""), ElArg("columns", "", JNum(2)),
                         El("subheader", "Language"),
                         ElArg("write", "**{}**", PyGet(res, kLanguage, JStr(dNA)).val),
                         El("subheader", "Sentiment")>>
            IN  IF sentiment.k # "str" THEN Shown(rest, "AttributeError")
                ELSE Shown(Append(rest,
                        ElArg("write", SentimentColor(sentiment), sentiment)), "none")

\* ------------------------------------------------------------- the script
NoUpload == [isNone |-> TRUE, pdf |-> [opens |-> FALSE, pages |-> <<>>]]
Upload(f) == [isNone |-> FALSE, pdf |-> f]

Init ==
    /\ pc = "start"
    /\ uploaded_file = NoUpload
    /\ handle = "none"
    /\ page_num = 0
    /\ text = <<>>
    /\ document_text = NoText
    /\ truncated_text = <<>>
    /\ i = 0
    /\ calls = <<>>
    /\ outcomes = <<>>
    /\ sleeps = <<>>
    /\ analysis_result = JNull
    /\ display = <<>>
    /\ escaped = "none"

\* lines 102-108: the uploader holds no file, the script ends
RunWithoutFile ==
    /\ pc = "start"
    /\ pc' = "done"
    /\ UNCHANGED <<uploaded_file, handle, page_num, text, document_text,
                   truncated_text, i, calls, outcomes, sleeps, analysis_result,
                   display, escaped>>

\* lines 102-111: the uploader holds a file, extract_text_from_pdf is called
RunWithFile ==
    /\ pc = "start"
    /\ \E f \in PdfFiles : uploaded_file' = Upload(f)
    /\ pc' = "extract_open"
    /\ UNCHANGED <<handle, page_num, text, document_text, truncated_text, i,
                   calls, outcomes, sleeps, analysis_result, display, escaped>>

\* lines 33-35: the except clause of extract_text_from_pdf
ExtractFailed ==
    /\ display' = Append(display, MsgPdfError)
    /\ document_text' = NoText
    /\ pc' = "gate"

\* lines 26-27
ExtractOpen ==
    /\ pc = "extract_open"
    /\ IF uploaded_file.pdf.opens
       THEN /\ handle' = "open"
            /\ text' = <<>>
            /\ page_num' = 0
            /\ pc' = "extract_loop"
            /\ UNCHANGED <<document_text, display>>
       ELSE /\ ExtractFailed
            /\ UNCHANGED <<handle, text, page_num>>
    /\ UNCHANGED <<uploaded_file, truncated_text, i, calls, outcomes, sleeps,
                   analysis_result, escaped>>

\* lines 28-30: one turn of the page loop
ExtractPage ==
    /\ pc = "extract_loop"
    /\ page_num < Len(uploaded_file.pdf.pages)
    /\ LET page == uploaded_file.pdf.pages[page_num + 1]
       IN  IF page.raises
           THEN /\ ExtractFailed
                /\ UNCHANGED <<handle, text, page_num>>
           ELSE /\ text' = text \o page.text
                /\ page_num' = page_num + 1
                /\ UNCHANGED <<handle, document_text, display, pc>>
    /\ UNCHANGED <<uploaded_file, truncated_text, i, calls, outcomes, sleeps,
                   analysis_result, escaped>>

\* lines 31-32: the loop is over
ExtractReturn ==
    /\ pc = "extract_loop"
    /\ page_num = Len(uploaded_file.pdf.pages)
    /\ handle' = "closed"
    /\ document_text' = SomeText(text)
    /\ pc' = "gate"
    /\ UNCHANGED <<uploaded_file, page_num, text, truncated_text, i, calls,
                   outcomes, sleeps, analysis_result, display, escaped>>

\* line 113: document_text and len(document_text.strip()) > 50
SufficientInclusiveMutant(d) ==
    ~d.isNone /\ d.runs # <<>> /\ StrLen(Strip(d.runs)) >= MinTextLen

Sufficient(d) == ~d.isNone /\ d.runs # <<>> /\ StrLen(Strip(d.runs)) > MinTextLen

\* lines 113-115 and 157-158
Gate ==
    /\ pc = "gate"
    /\ IF Sufficient(document_text)
       THEN pc' = "analyze" /\ UNCHANGED display
       ELSE pc' = "done" /\ display' = Append(display, MsgNotEnough)
    /\ UNCHANGED <<uploaded_file, handle, page_num, text, document_text,
                   truncated_text, i, calls, outcomes, sleeps, analysis_result,
                   escaped>>

\* lines 39-66: the payload is built once, before the loop
BuildPayload ==
    /\ pc = "analyze"
    /\ truncated_text' = Slice(document_text.runs, TruncateLimit)
    /\ i' = 0
    /\ pc' = "attempt"
    /\ UNCHANGED <<uploaded_file, handle, page_num, text, document_text, calls,
                   outcomes, sleeps, analysis_result, display, escaped>>

\* lines 69-90: one turn of the retry loop, the transport answering r.
\* Every path of the third turn returns or raises, so the return None of
\* line 92 after the loop is never reached.
Attempt ==
    /\ pc = "attempt"
    /\ i < MaxAttempts
    /\ \E r \in Responses :
        LET t == TryBlock(r)
            h == Handler(t.exc)
        IN  /\ calls' = Append(calls, truncated_text)
            /\ outcomes' = Append(outcomes, r)
            /\ CASE t.exc = "none" /\ ~t.unexpected ->
                      /\ analysis_result' = t.val
                      /\ pc' = "present"
                      /\ UNCHANGED <<i, sleeps, display, escaped>>
                 [] t.exc = "none" /\ t.unexpected ->
                      /\ display' = Append(display, MsgUnexpected)
                      /\ analysis_result' = JNull
                      /\ pc' = "present"
                      /\ UNCHANGED <<i, sleeps, escaped>>
                 [] h = "retry" /\ CanRetry(i) ->
                      /\ sleeps' = Append(sleeps, Backoff(i))
                      /\ i' = i + 1
                      /\ UNCHANGED <<pc, analysis_result, display, escaped>>
                 [] h = "retry" /\ ~CanRetry(i) ->
                      /\ display' = Append(display, MsgConnect)
                      /\ analysis_result' = JNull
                      /\ pc' = "present"
                      /\ UNCHANGED <<i, sleeps, escaped>>
                 [] h = "parse" ->
                      /\ display' = Append(display, MsgParse)
                      /\ analysis_result' = JNull
                      /\ pc' = "present"
                      /\ UNCHANGED <<i, sleeps, escaped>>
                 [] OTHER ->
                      /\ escaped' = t.exc
                      /\ pc' = "crashed"
                      /\ UNCHANGED <<i, sleeps, analysis_result, display>>
    /\ UNCHANGED <<uploaded_file, handle, page_num, text, document_text,
                   truncated_text>>

\* lines 118-155
Present ==
    /\ pc = "present"
    /\ LET r == Render(analysis_result)
       IN  /\ display' = display \o r.shown
           /\ escaped' = r.exc
           /\ pc' = IF r.exc = "none" THEN "done" ELSE "crashed"
    /\ UNCHANGED <<uploaded_file, handle, page_num, text, document_text,
                   truncated_text, i, calls, outcomes, sleeps, analysis_result>>

Next ==
    \/ RunWithoutFile
    \/ RunWithFile
    \/ ExtractOpen
    \/ ExtractPage
    \/ ExtractReturn
    \/ Gate
    \/ BuildPayload
    \/ Attempt
    \/ Present

Spec == Init /\ [][Next]_vars

\* ================================================================ claims
\* What the claims speak of, stated from the upload and the transport's
\* answers rather than from the script's own intermediate values.

\* the concatenation of the page texts of a document
RECURSIVE FullText(_)
FullText(pages) == IF pages = <<>> THEN <<>> ELSE Head(pages).text \o FullText(Tail(pages))

ExtractionFails(pdf) == ~pdf.opens \/ \E j \in 1..Len(pdf.pages) : pdf.pages[j].raises

RECURSIVE RunsLen(_, _, _)
RunsLen(t, from, to) == IF from > to THEN 0 ELSE t[from].n + RunsLen(t, from + 1, to)

\* the number of characters from the first to the last non-whitespace one
TrimmedLen(t) ==
    LET printable == {j \in 1..Len(t) : t[j].c # "w"}
    IN  IF printable = {} THEN 0
        ELSE RunsLen(t, CHOOSE j \in printable : \A m \in printable : j <= m,
                        CHOOSE j \in printable : \A m \in printable : j >= m)

\* the 0-based positions at which a run of t starts
RunStarts(t) == {RunsLen(t, 1, j - 1) : j \in 1..Len(t)}

\* a is the first Len(a) characters of b: both are constant between run
\* starts, so agreeing at every run start of either is agreeing everywhere
IsPrefix(a, b) ==
    /\ StrLen(a) <= StrLen(b)
    /\ \A p \in RunStarts(a) \cup {q \in RunStarts(b) : q < StrLen(a)} :
            CharAt(a, p) = CharAt(b, p)

Min(a, b) == IF a <= b THEN a ELSE b

Shows(el) == \E j \in 1..Len(display) : display[j] = el
Extracted == pc \notin {"start", "extract_open", "extract_loop"}
GatePassed == pc \notin {"start", "extract_open", "extract_loop", "gate"}
Returned == pc \in {"present", "done", "crashed"}
IsTransportFailure(r) == r.status \in TransportFailures
OkBody(r, b) == r.status = "ok" /\ r.invalid = "none" /\ r.body = b

\* the values the well-formed inner texts stand for, written out by hand
DecodedFull ==
    JObj(<<Mem(kSummary, JStr(<<"s">>)),
           Mem(kKeywords, JList(<<JStr(<<"k">>), JStr(<<"t">>)>>)),
           Mem(kSentiment, JStr(<<"P","o","s","i","t","i","v","e">>)),
           Mem(kLanguage, JStr(<<"e","n">>))>>)
DecodedNoKeywords ==
    JObj(<<Mem(kSummary, JStr(<<"s">>)),
           Mem(kSentiment, JStr(<<"N","E","G","A","T","I","V","E">>)),
           Mem(kLanguage, JStr(<<"e","n">>))>>)
DecodedOnlyKeywords == JObj(<<Mem(kKeywords, JList(<<JStr(<<"k">>)>>))>>)
WellFormedTexts == {TxtFull, TxtNoKeywords, TxtOnlyKeywords, TxtEmptyObject, TxtList}
Decoded(t) ==
    CASE t = TxtFull -> DecodedFull
      [] t = TxtNoKeywords -> DecodedNoKeywords
      [] t = TxtOnlyKeywords -> DecodedOnlyKeywords
      [] t = TxtEmptyObject -> JObj(<<>>)
      [] t = TxtList -> JList(<<JStr(<<"k">>)>>)
IsWellFormed(r) == \E t \in WellFormedTexts : OkBody(r, WithText(JStr(t)))
InnerOf(r) == CHOOSE t \in WellFormedTexts : OkBody(r, WithText(JStr(t)))

\* C1: a network call is issued only if extraction succeeded and the trimmed
\* text is longer than 50 characters; otherwise the script ends with the
\* not-enough-text warning and no call.
C1_GateBeforeNetwork ==
    LET pdf == uploaded_file.pdf
        enough == ~ExtractionFails(pdf) /\ TrimmedLen(FullText(pdf.pages)) > MinTextLen
    IN  /\ calls # <<>> => ~uploaded_file.isNone /\ enough
        /\ GatePassed /\ ~uploaded_file.isNone /\ ~enough =>
              /\ pc = "done"
              /\ calls = <<>>
              /\ display[Len(display)] = MsgNotEnough

\* a text of exactly 50 printable characters was extracted and turned away
C1_Witness ==
    /\ pc = "done"
    /\ ~document_text.isNone
    /\ TrimmedLen(document_text.runs) = MinTextLen
    /\ calls = <<>>
    /\ Shows(MsgNotEnough)

\* C2: k transport failures (k = 0, 1, 2) and then a well-formed answer: k + 1
\* calls, one sleep after each failure of 1 then 2 units and no other, and
\* the decoded value of the answer is returned.
C2_RetryThenSuccess ==
    /\ pc = "attempt" => Len(sleeps) = Len(calls)
    /\ Returned /\ outcomes # <<>> /\ IsWellFormed(outcomes[Len(outcomes)])
         /\ (\A j \in 1..(Len(outcomes) - 1) : IsTransportFailure(outcomes[j])) =>
              LET k == Len(outcomes) - 1
              IN  /\ k \in 0..2
                  /\ Len(calls) = k + 1
                  /\ sleeps = SubSeq(<<1, 2>>, 1, k)
                  /\ analysis_result = Decoded(InnerOf(outcomes[k + 1]))

\* two failures, then the full answer
C2_Witness ==
    /\ pc = "done"
    /\ Len(outcomes) = 3
    /\ IsTransportFailure(outcomes[1]) /\ IsTransportFailure(outcomes[2])
    /\ OkBody(outcomes[3], WithText(JStr(TxtFull)))
    /\ sleeps = <<1, 2>>
    /\ analysis_result = DecodedFull

\* C3: a transport failing every time: exactly 3 calls, None returned after
\* the third without a sleep, and the connection error shown only then.
C3_GiveUpAfterThree ==
    /\ Len(calls) <= 3
    /\ Shows(MsgConnect) => Len(calls) = 3
    /\ Returned /\ outcomes # <<>>
         /\ (\A j \in 1..Len(outcomes) : IsTransportFailure(outcomes[j])) =>
          /\ Len(calls) = 3
          /\ sleeps = <<1, 2>>
          /\ analysis_result = JNull
          /\ display = <<MsgConnect>>

C3_Witness ==
    /\ pc = "done"
    /\ Len(calls) = 3
    /\ \A j \in 1..3 : IsTransportFailure(outcomes[j])
    /\ display = <<MsgConnect>>

\* C4: a 2xx answer with no or an empty candidate list, with no or empty
\* text in the first part of the first candidate, or with inner text that is
\* not JSON ends the client at once: an error is shown, None is returned,
\* and no call and no sleep follow it.
ShapeErrorBodies ==
    { JObj(<<>>),
      WithCandidates(JList(<<>>)),
      WithCandidates(JList(<<JObj(<<>>)>>)),
      WithParts(JList(<<>>)),
      WithParts(JList(<<JObj(<<>>)>>)),
      WithText(JStr(<<>>)),
      WithText(JStr(TxtTruncated)),
      WithText(JStr(TxtTrailing)),
      WithText(JStr(TxtProse)) }
IsShapeError(r) == \E b \in ShapeErrorBodies : OkBody(r, b)

C4_ShapeErrorIsTerminal ==
    \A j \in 1..Len(outcomes) : IsShapeError(outcomes[j]) =>
        /\ j = Len(outcomes)
        /\ Len(calls) = j
        /\ Len(sleeps) = j - 1
        /\ pc \in {"present", "done"}
        /\ analysis_result = JNull
        /\ display \in {<<MsgUnexpected>>, <<MsgParse>>}
        /\ escaped = "none"

\* inner text that is not JSON, on the third attempt
C4_Witness ==
    /\ pc = "done"
    /\ Len(outcomes) = 3
    /\ OkBody(outcomes[3], WithText(JStr(TxtTruncated)))
    /\ display = <<MsgParse>>

\* C5: the document text of every call is the first min(len, 15000)
\* characters of the extracted text, the same on every attempt.
C5_PayloadIsPrefix ==
    \A j \in 1..Len(calls) :
        LET full == FullText(uploaded_file.pdf.pages)
        IN  /\ StrLen(calls[j]) = Min(StrLen(full), TruncateLimit)
            /\ IsPrefix(calls[j], full)
            /\ calls[j] = calls[1]

\* a text longer than the limit, cut inside a run, sent three times
C5_Witness ==
    /\ Len(calls) = 3
    /\ StrLen(FullText(uploaded_file.pdf.pages)) > TruncateLimit
    /\ StrLen(calls[3]) = TruncateLimit
    /\ CharAt(calls[3], TruncateLimit - 1) = "b"

\* C6: no exception leaves the script for any upload, transport outcome or
\* response shape.
C6_NoExceptionEscapes == escaped = "none" /\ pc # "crashed"

\* C7: once the document is open it is closed before extract_text_from_pdf
\* returns, on the success path and on the failure path.
C7_HandleReleased == Extracted => handle # "open"

\* C8: an inner object without keywords (or with an empty list) is shown
\* with the no-keywords message and with summary, language and sentiment;
\* a non-empty list is shown one column and one item per keyword, in order.
Heading(summary) ==
    <<MsgSuccess, El("divider", ""), El("subheader", "Summary"),
      ElArg("write", "", JStr(summary)), El("subheader", "Key Topics")>>
Footing(language, color, sentiment) ==
    <<El("divider", ""), ElArg("columns", "", JNum(2)), El("subheader", "Language"),
      ElArg("write", "**{}**", JStr(language)), El("subheader", "Sentiment"),
      ElArg("write", color, JStr(sentiment))>>
Page(summary, keywordRow, language, color, sentiment) ==
    Heading(summary) \o keywordRow \o Footing(language, color, sentiment)
Answered(t) == pc = "done" /\ outcomes # <<>> /\ OkBody(outcomes[Len(outcomes)], WithText(JStr(t)))

C8_KeywordsRendering ==
    /\ Answered(TxtNoKeywords) =>
          display = Page(<<"s">>, <<MsgNoKeywords>>, <<"e","n">>, "red",
                         <<"N","E","G","A","T","I","V","E">>)
    /\ Answered(TxtEmptyKeywords) =>
          display = Page(<<"s">>, <<MsgNoKeywords>>, dNA, "orange", <<"m","i","x","e","d">>)
    /\ Answered(TxtOnlyLanguage) =>
          display = Page(dNoSummary, <<MsgNoKeywords>>, <<"e","n">>, "orange", dNA)
    /\ Answered(TxtEmptyObject) =>
          display = Page(dNoSummary, <<MsgNoKeywords>>, dNA, "orange", dNA)
    /\ Answered(TxtFull) =>
          display = Page(<<"s">>,
                         <<ElArg("columns", "", JNum(2)),
                           ElCol("info", "", JStr(<<"k">>), 1),
                           ElCol("info", "", JStr(<<"t">>), 2)>>,
                         <<"e","n">>, "green", <<"P","o","s","i","t","i","v","e">>)
    /\ Answered(TxtOnlyKeywords) =>
          display = Page(dNoSummary,
                         <<ElArg("columns", "", JNum(1)),
                           ElCol("info", "", JStr(<<"k">>), 1)>>,
                         dNA, "orange", dNA)

\* C9: a run with an uploaded file never ends with nothing shown.
C9_SomethingShown == pc = "done" /\ ~uploaded_file.isNone => display # <<>>

\* C10: the document text of every call has more than 50 characters after
\* trimming.
C10_PayloadSufficient == \A j \in 1..Len(calls) : TrimmedLen(calls[j]) > MinTextLen

====
